---- MODULE Spec2Model ----
(***************************************************************************)
(* Model of the SWIFT codes API (swift_api): the swift_codes table, the    *)
(* CRUD functions over it, the pydantic validation of incoming data, the   *)
(* Excel parser's cleaning step and the HTTP handlers built on them.       *)
(*                                                                         *)
(* Strings that the code converts or inspects character by character       *)
(* (swift_code, country_iso2, country_name) are sequences of one-character *)
(* strings; bank_name and address, which the code only stores and          *)
(* compares with "", are plain strings.  A Python Optional value is the    *)
(* empty sequence (None) or a one-element sequence (a value).              *)
(***************************************************************************)
EXTENDS Integers, Sequences, FiniteSets, TLC

VARIABLES
    store,      \* rows of table swift_codes (models.SwiftCode)
    live,       \* history: rows written by a successful create and not deleted since
    removed,    \* history: codes removed by a successful delete and not created since
    req,        \* the last request served in sequence (operation and inputs)
    resp,       \* the response to req
    sess        \* per concurrent session: position in its handler, locals, response

vars == <<store, live, removed, req, resp, sess>>

----------------------------------------------------------------------------
(* Bounds of the model.                                                    *)

MaxRows == 2        \* rows of a bulk-load file
MaxSkip == 2        \* largest skip tried by get-by-country
MaxLimit == 2       \* largest small limit tried by get-by-country
NumSessions == 2    \* concurrent sessions

----------------------------------------------------------------------------
(* Python values.                                                          *)

None == <<>>
Some(x) == <<x>>

Min(a, b) == IF a < b THEN a ELSE b

\* str.upper() on one character: lower-case ASCII letters map to upper case,
\* every other character of the model is left alone.
LowerToUpper ==
    [a |-> "A", b |-> "B", c |-> "C", d |-> "D", e |-> "E", f |-> "F",
     g |-> "G", h |-> "H", i |-> "I", j |-> "J", k |-> "K", l |-> "L",
     m |-> "M", n |-> "N", o |-> "O", p |-> "P", q |-> "Q", r |-> "R",
     s |-> "S", t |-> "T", u |-> "U", v |-> "V", w |-> "W", x |-> "X",
     y |-> "Y", z |-> "Z"]

UpperLetters == {LowerToUpper[ch] : ch \in DOMAIN LowerToUpper}

Digits == {"0", "1", "2", "3", "4", "5", "6", "7", "8", "9"}

CharUpper(ch) == IF ch \in DOMAIN LowerToUpper THEN LowerToUpper[ch] ELSE ch

\* str.upper()
Upper(s) == [i \in 1..Len(s) |-> CharUpper(s[i])]

\* str.endswith(suffix)
EndsWith(s, suffix) ==
    /\ Len(s) >= Len(suffix)
    /\ SubSeq(s, Len(s) - Len(suffix) + 1, Len(s)) = suffix

\* str.startswith(prefix), and SQL's  column LIKE prefix || '%'  for a prefix
\* without wildcard characters
StartsWith(s, prefix) ==
    /\ Len(s) >= Len(prefix)
    /\ SubSeq(s, 1, Len(prefix)) = prefix

\* s[:n]
Prefix(s, n) == SubSeq(s, 1, Min(n, Len(s)))

\* re.fullmatch(r"^[A-Z0-9]+$", s)
MatchesAZ09Plus(s) == Len(s) >= 1 /\ \A i \in 1..Len(s) : s[i] \in UpperLetters \cup Digits

\* variant: the code path parameter is matched whatever its case
SWIFT_CODE_PATTERN_IgnoringCase(s) == Len(s) \in {8, 11} /\ MatchesAZ09Plus(Upper(s))

\* the pattern ^([A-Z0-9]{8}|[A-Z0-9]{11})$ of the code path parameter
SWIFT_CODE_PATTERN(s) == Len(s) \in {8, 11} /\ MatchesAZ09Plus(s)

\* the pattern ^[A-Z]{2}$ of the country path parameter
COUNTRY_CODE_PATTERN(s) == Len(s) = 2 /\ \A i \in 1..2 : s[i] \in UpperLetters

XXX == <<"X", "X", "X">>

----------------------------------------------------------------------------
(* The inputs the requests of the model are drawn from.                    *)

HQ11 == <<"A", "B", "C", "D", "E", "F", "G", "H", "X", "X", "X">>
BR11 == <<"A", "B", "C", "D", "E", "F", "G", "H", "B", "0", "1">>
BR8 == <<"A", "B", "C", "D", "E", "F", "G", "H">>
HQ8 == <<"A", "B", "C", "D", "E", "X", "X", "X">>
BRHQ8 == <<"A", "B", "C", "D", "E", "X", "X", "X", "B", "0", "1">>

LowerHQ11 == <<"a", "b", "c", "d", "e", "f", "g", "h", "x", "x", "x">>
TooShort == <<"I", "N", "V", "L", "D">>
BadChar == <<"I", "N", "V", "@", "L", "I", "D", "1">>

ValidCodes == {HQ11, BR11, BR8, HQ8, BRHQ8}
InvalidCodes == {LowerHQ11, TooShort, BadChar}

PL == <<"P", "L">>
DE == <<"D", "E">>
FR == <<"F", "R">>

\* the client-side values of a record other than its code and flag
Profiles ==
    { [bank_name |-> "Bank One", address |-> Some("1 Main St"),
       country_iso2 |-> <<"p", "l">>, country_name |-> <<"P", "o", "l", "a", "n", "d">>],
      [bank_name |-> "", address |-> None,
       country_iso2 |-> DE, country_name |-> <<"G", "e", "r", "m", "a", "n", "y">>] }

BadCountryProfiles ==
    { [bank_name |-> "Bank One", address |-> None,
       country_iso2 |-> <<"P", "1">>, country_name |-> <<"P", "O", "L", "A", "N", "D">>],
      [bank_name |-> "Bank One", address |-> None,
       country_iso2 |-> <<"P", "O", "L">>, country_name |-> <<"P", "O", "L", "A", "N", "D">>] }

\* a record with a valid code and country code and empty bank and country names
EmptyNameProfiles ==
    { [bank_name |-> "", address |-> None,
       country_iso2 |-> PL, country_name |-> <<>>] }

Flags == {None, Some(TRUE), Some(FALSE)}

Payload(code, p, flag) ==
    [swift_code |-> code, bank_name |-> p.bank_name, address |-> p.address,
     country_iso2 |-> p.country_iso2, country_name |-> p.country_name,
     is_headquarter |-> flag]

\* bodies of POST /v1/swift-codes/
CreateInputs ==
    {Payload(c, p, f) : c \in ValidCodes, p \in Profiles, f \in Flags}
    \cup {Payload(c, p, None) : c \in InvalidCodes, p \in Profiles}
    \cup {Payload(HQ11, p, None) : p \in BadCountryProfiles}
    \cup {Payload(BR8, p, None) : p \in EmptyNameProfiles}

\* path parameters of GET and DELETE /v1/swift-codes/{swift_code}
CodeInputs == ValidCodes \cup InvalidCodes

\* path and query parameters of GET /v1/swift-codes/country/{country_iso2_code}
CountryQueries ==
    [country_iso2_code : {PL, DE, FR}, skip : 0..MaxSkip, limit : 1..MaxLimit]
    \cup [country_iso2_code : {PL}, skip : {0, MaxSkip}, limit : {1000}]
    \cup [country_iso2_code : {<<"p", "l">>, <<"P", "O", "L">>}, skip : {0}, limit : {1}]
    \cup [country_iso2_code : {PL}, skip : {-1}, limit : {1}]
    \cup [country_iso2_code : {PL}, skip : {0}, limit : {0, 1001}]

----------------------------------------------------------------------------
(* schemas.py: validation of an incoming record.                           *)

\* SwiftCodeBase.convert_to_uppercase (mode="before", country_iso2 and country_name)
convert_to_uppercase(value) == Upper(value)

\* variant: the code is validated after being converted to upper case
check_swift_code_uppercased(value) ==
    /\ Len(value) = 8 \/ Len(value) = 11
    /\ MatchesAZ09Plus(Upper(value))

\* variant: only the length of the code is validated
check_swift_code_length_only(value) == Len(value) = 8 \/ Len(value) = 11

\* SwiftCodeBase.check_swift_code_chars_and_length, with the Field's
\* min_length=8, max_length=11
check_swift_code_chars_and_length(value) ==
    /\ Len(value) >= 8 /\ Len(value) <= 11
    /\ Len(value) = 8 \/ Len(value) = 11
    /\ MatchesAZ09Plus(value)

\* SwiftCodeBase.check_country_iso2_format, with the Field's min_length=2, max_length=2
check_country_iso2_format(value) ==
    /\ Len(value) = 2
    /\ \A i \in 1..Len(value) : value[i] \in UpperLetters

\* does SwiftCodeCreate(**data) validate (TRUE) or raise ValidationError (FALSE)
SwiftCodeCreateValid(data) ==
    /\ check_swift_code_chars_and_length(data.swift_code)
    /\ check_country_iso2_format(convert_to_uppercase(data.country_iso2))

\* the schema object SwiftCodeCreate(**data) of valid data
SwiftCodeCreate(data) ==
    [swift_code |-> data.swift_code,
     bank_name |-> data.bank_name,
     address |-> data.address,
     country_iso2 |-> convert_to_uppercase(data.country_iso2),
     country_name |-> convert_to_uppercase(data.country_name),
     is_headquarter |-> data.is_headquarter]

----------------------------------------------------------------------------
(* crud.py over a database state db, the set of rows of swift_codes.       *)

Codes(db) == {r.swift_code : r \in db}

\* all orders in which the database may yield the rows S of an unordered query
RECURSIVE RowOrders(_)
RowOrders(S) ==
    IF S = {} THEN {<<>>}
    ELSE UNION {{<<x>> \o o : o \in RowOrders(S \ {x})} : x \in S}

\* variant: the window starts at the first row whatever the offset
WindowFromStart(order, skip, limit) == SubSeq(order, 1, Min(Len(order), limit))

\* .offset(skip).limit(limit) on the rows in the order yielded
Window(order, skip, limit) == SubSeq(order, skip + 1, Min(Len(order), skip + limit))

\* crud.get_swift_by_code
get_swift_by_code(db, swift_code) ==
    LET found == {r \in db : r.swift_code = Upper(swift_code)}
    IN  IF found = {} THEN None ELSE Some(CHOOSE r \in found : TRUE)

\* crud.get_swifts_by_country: the results the query can return
get_swifts_by_country(db, country_iso2, skip, limit) ==
    {Window(o, skip, limit) :
        o \in RowOrders({r \in db : r.country_iso2 = Upper(country_iso2)})}

\* variant: the branch query leaves out the rows whose code is the prefix itself
get_branches_longer_only(db, hq_prefix) ==
    IF Len(hq_prefix) # 8 THEN {}
    ELSE {r \in db : /\ StartsWith(r.swift_code, Upper(hq_prefix))
                     /\ Len(r.swift_code) > 8
                     /\ r.is_headquarter = FALSE}

\* variant: the branch query without the is_headquarter filter
get_branches_unfiltered(db, hq_prefix) ==
    IF Len(hq_prefix) # 8 THEN {}
    ELSE {r \in db : StartsWith(r.swift_code, Upper(hq_prefix))}

\* crud.get_branches_by_hq_prefix: the rows selected (returned in some order)
get_branches_by_hq_prefix(db, hq_prefix) ==
    IF Len(hq_prefix) # 8 THEN {}
    ELSE {r \in db : StartsWith(r.swift_code, Upper(hq_prefix)) /\ r.is_headquarter = FALSE}

\* variant: only 11-character codes are classified as headquarters
is_hq_only11(swift) ==
    Len(swift.swift_code) = 11 /\ EndsWith(Upper(swift.swift_code), XXX)

\* variant: the flag of the request is used when it is given
is_hq_trusting(swift) ==
    IF swift.is_headquarter # None THEN swift.is_headquarter[1]
    ELSE EndsWith(Upper(swift.swift_code), XXX)

\* crud.create_swift, line 53: the flag is computed from the code's suffix
is_hq(swift) == EndsWith(Upper(swift.swift_code), XXX)

\* variant: the address is not copied into the row
NewRowWithoutAddress(swift) ==
    [swift_code |-> Upper(swift.swift_code),
     bank_name |-> swift.bank_name,
     address |-> None,
     country_iso2 |-> Upper(swift.country_iso2),
     country_name |-> Upper(swift.country_name),
     is_headquarter |-> EndsWith(Upper(swift.swift_code), XXX)]

\* crud.create_swift, lines 55-62: the row built from the schema object
NewRow(swift) ==
    [swift_code |-> Upper(swift.swift_code),
     bank_name |-> swift.bank_name,
     address |-> swift.address,
     country_iso2 |-> Upper(swift.country_iso2),
     country_name |-> Upper(swift.country_name),
     is_headquarter |-> is_hq(swift)]

\* variant: a table without the primary key
NoPrimaryKey(db, row) == FALSE

\* the primary key of swift_codes: does inserting row raise IntegrityError
PrimaryKeyViolation(db, row) == \E r \in db : r.swift_code = row.swift_code

\* variant: a failing commit is not rolled back and the row stays
create_swift_without_rollback(db, swift, commit_ok) ==
    LET db_swift == NewRow(swift)
    IN  IF PrimaryKeyViolation(db, db_swift) THEN [db |-> db, ret |-> None]
        ELSE IF ~commit_ok THEN [db |-> db \cup {db_swift}, ret |-> None]
        ELSE [db |-> db \cup {db_swift}, ret |-> Some(db_swift)]

\* crud.create_swift; commit_ok = FALSE is a commit failing for another reason
create_swift(db, swift, commit_ok) ==
    LET db_swift == NewRow(swift)
    IN  IF PrimaryKeyViolation(db, db_swift) \/ ~commit_ok
        THEN [db |-> db, ret |-> None]
        ELSE [db |-> db \cup {db_swift}, ret |-> Some(db_swift)]

\* variant: the delete takes the rows of the same institution with it
DeleteRowByPrefix(db, db_swift) ==
    {r \in db : Prefix(r.swift_code, 8) # Prefix(db_swift.swift_code, 8)}

\* variant: the delete of a headquarters row takes its branches with it
DeleteRowCascading(db, db_swift) ==
    IF db_swift.is_headquarter
    THEN {r \in db : Prefix(r.swift_code, 8) # Prefix(db_swift.swift_code, 8)}
    ELSE {r \in db : r.swift_code # db_swift.swift_code}

\* variant: the delete is never committed
DeleteRowUncommitted(db, db_swift) == db

\* DELETE FROM swift_codes WHERE swift_code = :pk, emitted by db.delete + commit
DeleteRow(db, db_swift) == {r \in db : r.swift_code # db_swift.swift_code}

\* variant: the outcome of the commit is not looked at
delete_swift_unchecked(db, swift_code, commit_ok) ==
    LET db_swift == get_swift_by_code(db, swift_code)
    IN  IF db_swift # None
        THEN [db |-> IF commit_ok THEN DeleteRow(db, db_swift[1]) ELSE db,
              ret |-> db_swift]
        ELSE [db |-> db, ret |-> None]

\* crud.delete_swift
delete_swift(db, swift_code, commit_ok) ==
    LET db_swift == get_swift_by_code(db, swift_code)
    IN  IF db_swift # None
        THEN IF commit_ok
             THEN [db |-> DeleteRow(db, db_swift[1]), ret |-> db_swift]
             ELSE [db |-> db, ret |-> None]
        ELSE [db |-> db, ret |-> None]

----------------------------------------------------------------------------
(* routers/swift_codes.py: the handlers, each as a function of the         *)
(* database state and the request.  A response is a record with the HTTP   *)
(* status and what the handler returns with it.                            *)

\* schemas.SwiftCode.model_validate(row): the response view of a row
SwiftCodeView(row) ==
    [swift_code |-> row.swift_code,
     bank_name |-> row.bank_name,
     address |-> row.address,
     country_iso2 |-> convert_to_uppercase(row.country_iso2),
     country_name |-> convert_to_uppercase(row.country_name),
     is_headquarter |-> row.is_headquarter]

\* schemas.SwiftCodeBranch.model_validate(row): the branch sub-view, without country_name
SwiftCodeBranchView(row) ==
    [swift_code |-> row.swift_code,
     bank_name |-> row.bank_name,
     address |-> row.address,
     country_iso2 |-> row.country_iso2,
     is_headquarter |-> row.is_headquarter]

\* variant: the branches found are not put into the response
HeadquarterResponseWithoutBranches(db_swift, branches_models) ==
    [status |-> 200,
     body |-> [swift_code |-> db_swift.swift_code,
               bank_name |-> db_swift.bank_name,
               address |-> db_swift.address,
               country_iso2 |-> db_swift.country_iso2,
               country_name |-> db_swift.country_name,
               is_headquarter |-> db_swift.is_headquarter,
               branches |-> <<>>]]

\* read_swift_code, lines 88-105: the response for a headquarters row, its
\* branches in the order the branch query yielded them
HeadquarterResponse(db_swift, branches_models) ==
    [status |-> 200,
     body |-> [swift_code |-> SwiftCodeView(db_swift).swift_code,
               bank_name |-> SwiftCodeView(db_swift).bank_name,
               address |-> SwiftCodeView(db_swift).address,
               country_iso2 |-> SwiftCodeView(db_swift).country_iso2,
               country_name |-> SwiftCodeView(db_swift).country_name,
               is_headquarter |-> SwiftCodeView(db_swift).is_headquarter,
               branches |-> [i \in 1..Len(branches_models) |->
                                SwiftCodeBranchView(branches_models[i])]]]

\* variant: every response carries a branches list
PlainResponseWithBranches(db_swift) == HeadquarterResponse(db_swift, <<>>)

\* read_swift_code, lines 106-108: the response for any other row
PlainResponse(db_swift) == [status |-> 200, body |-> SwiftCodeView(db_swift)]

\* read_swift_code, line 90: the prefix the branch query is given
hq_prefix_of(db_swift) == Prefix(db_swift.swift_code, 8)

\* variant: the composite view is built for 11-character headquarters only
wants_branches_only11(db_swift) ==
    db_swift.is_headquarter /\ Len(db_swift.swift_code) = 11

\* read_swift_code, line 88: is the composite view built for this row
wants_branches(db_swift) == db_swift.is_headquarter

\* GET /v1/swift-codes/{swift_code}: the responses the handler can give
read_swift_code(db, swift_code) ==
    IF ~SWIFT_CODE_PATTERN(swift_code) THEN {[status |-> 422]}
    ELSE LET db_swift == get_swift_by_code(db, swift_code)
         IN  IF db_swift = None THEN {[status |-> 404]}
             ELSE IF wants_branches(db_swift[1])
                  THEN {HeadquarterResponse(db_swift[1], o) :
                           o \in RowOrders(get_branches_by_hq_prefix(db, hq_prefix_of(db_swift[1])))}
                  ELSE {PlainResponse(db_swift[1])}

\* Query(100, ge=1, le=1000)
LimitMin == 1
LimitMax == 1000

\* read_swifts_by_country, lines 121-131: the path and query constraints
CountryQueryValid(country_iso2_code, skip, limit) ==
    /\ COUNTRY_CODE_PATTERN(country_iso2_code)
    /\ skip >= 0
    /\ limit >= LimitMin /\ limit <= LimitMax

\* read_swifts_by_country, lines 173-180
CountryListResponse(country_code_upper, country_name, swift_codes_models) ==
    [status |-> 200,
     body |-> [country_iso2 |-> country_code_upper,
               country_name |-> country_name,
               swift_codes |-> [i \in 1..Len(swift_codes_models) |->
                                   SwiftCodeView(swift_codes_models[i])]]]

\* read_swifts_by_country, line 146: the name before a record is looked at
Unknown == <<"U", "n", "k", "n", "o", "w", "n">>

\* variant: an empty window of a country with records keeps the placeholder name
EmptyWindowUnknown(db, country_code_upper) ==
    IF {r \in db : r.country_iso2 = country_code_upper} # {}
    THEN {CountryListResponse(country_code_upper, Unknown, <<>>)}
    ELSE {[status |-> 404]}

\* variant: an empty window is always reported as not found
EmptyWindowNotFound(db, country_code_upper) == {[status |-> 404]}

\* read_swifts_by_country, lines 151-170: the fallback when the window is empty;
\* .first() of an unordered query yields any matching row
EmptyWindowResponses(db, country_code_upper) ==
    LET any_code_for_country == {r \in db : r.country_iso2 = country_code_upper}
    IN  IF any_code_for_country # {}
        THEN {CountryListResponse(country_code_upper, r.country_name, <<>>) :
                 r \in any_code_for_country}
        ELSE {[status |-> 404]}

\* GET /v1/swift-codes/country/{country_iso2_code}: the responses the handler can give
read_swifts_by_country(db, country_iso2_code, skip, limit) ==
    IF ~CountryQueryValid(country_iso2_code, skip, limit) THEN {[status |-> 422]}
    ELSE LET country_code_upper == Upper(country_iso2_code)
         IN  UNION { IF swift_codes_models # <<>>
                     THEN {CountryListResponse(country_code_upper,
                                               swift_codes_models[1].country_name,
                                               swift_codes_models)}
                     ELSE EmptyWindowResponses(db, country_code_upper) :
                     swift_codes_models \in
                         get_swifts_by_country(db, country_code_upper, skip, limit) }

\* variant: a create of a stored code replaces the stored row
create_swift_code_replacing(db, data, commit_ok) ==
    IF ~SwiftCodeCreateValid(data)
    THEN [db |-> db, created |-> None, resp |-> [status |-> 422]]
    ELSE LET db_swift == NewRow(SwiftCodeCreate(data))
         IN  [db |-> DeleteRow(db, db_swift) \cup {db_swift}, created |-> Some(db_swift),
              resp |-> [status |-> 201, swift_code |-> db_swift.swift_code]]

\* POST /v1/swift-codes/: the database afterwards, the response, and the row
\* crud.create_swift returned to the handler (created)
create_swift_code(db, data, commit_ok) ==
    IF ~SwiftCodeCreateValid(data)
    THEN [db |-> db, created |-> None, resp |-> [status |-> 422]]
    ELSE LET swift_data == SwiftCodeCreate(data)
             existing_swift == get_swift_by_code(db, swift_data.swift_code)
             created == create_swift(db, swift_data, commit_ok)
         IN  IF existing_swift # None
             THEN [db |-> db, created |-> None,
                   resp |-> [status |-> 400, swift_code |-> swift_data.swift_code]]
             ELSE IF created.ret = None
                  THEN [db |-> created.db, created |-> None,
                        resp |-> [status |-> 500, swift_code |-> swift_data.swift_code]]
                  ELSE [db |-> created.db, created |-> created.ret,
                        resp |-> [status |-> 201, swift_code |-> created.ret[1].swift_code]]

\* DELETE /v1/swift-codes/{swift_code}: the database afterwards and the response;
\* deleted is the row crud.delete_swift returned to the handler
delete_swift_code(db, swift_code, commit_ok) ==
    IF ~SWIFT_CODE_PATTERN(swift_code) THEN [db |-> db, resp |-> [status |-> 422]]
    ELSE LET deleted_swift == delete_swift(db, swift_code, commit_ok)
         IN  IF deleted_swift.ret = None
             THEN [db |-> deleted_swift.db, resp |-> [status |-> 404]]
             ELSE [db |-> deleted_swift.db,
                   resp |-> [status |-> 200, swift_code |-> Upper(swift_code),
                             deleted |-> deleted_swift.ret[1]]]

----------------------------------------------------------------------------
(* parser.py and main.py: the bulk load.  A file is a sequence of raw      *)
(* rows, each with the five required columns as strings (an empty cell is  *)
(* the empty string, as after fillna("")).                                 *)

RawRows ==
    { [swift_code |-> LowerHQ11, bank_name |-> "Bank One", address |-> "",
       country_iso2 |-> <<"p", "l">>, country_name |-> <<"P", "o", "l", "a", "n", "d">>],
      [swift_code |-> BR11, bank_name |-> "Branch", address |-> "2 Side St",
       country_iso2 |-> DE, country_name |-> <<"G", "e", "r", "m", "a", "n", "y">>],
      [swift_code |-> <<"A", "B", "C", "D", "-", "F", "G", "H">>, bank_name |-> "Bank One",
       address |-> "", country_iso2 |-> PL, country_name |-> <<"P", "O", "L", "A", "N", "D">>],
      [swift_code |-> HQ8, bank_name |-> "", address |-> "",
       country_iso2 |-> PL, country_name |-> <<"P", "O", "L", "A", "N", "D">>] }

RECURSIVE SeqsUpTo(_, _)
SeqsUpTo(S, n) ==
    IF n = 0 THEN {<<>>}
    ELSE SeqsUpTo(S, n - 1) \cup
         {Append(q, x) : q \in {t \in SeqsUpTo(S, n - 1) : Len(t) = n - 1}, x \in S}

Files == SeqsUpTo(RawRows, MaxRows)

\* parse_swift_data, lines 64-71: the cleaned row
CleanRow(raw) ==
    [swift_code |-> Upper(raw.swift_code),
     bank_name |-> raw.bank_name,
     address |-> Some(raw.address),
     country_iso2 |-> Upper(raw.country_iso2),
     country_name |-> Upper(raw.country_name),
     is_headquarter |-> Some(EndsWith(Upper(raw.swift_code), XXX))]

\* variant: rows with an empty bank_name are kept
KeepRowWithoutBankName(row) ==
    /\ Len(row.swift_code) \in {8, 11}
    /\ Len(row.country_iso2) = 2
    /\ row.country_name # <<>>

\* parse_swift_data, lines 77-89: the rows kept
KeepRow(row) ==
    /\ Len(row.swift_code) \in {8, 11}
    /\ Len(row.country_iso2) = 2
    /\ row.swift_code # <<>>
    /\ row.country_iso2 # <<>>
    /\ row.country_name # <<>>
    /\ row.bank_name # ""

\* parser.parse_swift_data: the records of a file
parse_swift_data(file) ==
    LET cleaned == [i \in 1..Len(file) |-> CleanRow(file[i])]
    IN  SelectSeq(cleaned, KeepRow)

\* variant: a record whose code is stored replaces the stored row
LoadRowOverwriting(acc, swift_dict, commit_ok) ==
    IF ~SwiftCodeCreateValid(swift_dict)
    THEN [acc EXCEPT !.skipped = @ + 1]
    ELSE LET db_swift == NewRow(SwiftCodeCreate(swift_dict))
         IN  IF commit_ok
             THEN [acc EXCEPT !.db = DeleteRow(@, db_swift) \cup {db_swift},
                              !.added = @ + 1, !.created = @ \cup {db_swift}]
             ELSE [acc EXCEPT !.errors = @ + 1]

\* load_data_from_file, lines 71-95: the loop body for one parsed record, from
\* the database and counters so far (acc) to those after it; created collects
\* the rows create_swift stored
LoadRow(acc, swift_dict, commit_ok) ==
    IF ~SwiftCodeCreateValid(swift_dict)
    THEN [acc EXCEPT !.skipped = @ + 1]
    ELSE LET swift_create_schema == SwiftCodeCreate(swift_dict)
             out == create_swift(acc.db, swift_create_schema, commit_ok)
         IN  IF get_swift_by_code(acc.db, swift_create_schema.swift_code) # None
             THEN [acc EXCEPT !.skipped = @ + 1]
             ELSE IF out.ret # None
                  THEN [acc EXCEPT !.db = out.db, !.added = @ + 1,
                                   !.created = @ \cup {out.ret[1]}]
                  ELSE [acc EXCEPT !.errors = @ + 1]

\* load_data_from_file, line 71: the loop over the parsed records; commit_oks[i]
\* tells whether the commit of record i can succeed
RECURSIVE LoadRows(_, _, _, _)
LoadRows(acc, swift_data_list, commit_oks, i) ==
    IF i > Len(swift_data_list) THEN acc
    ELSE LoadRows(LoadRow(acc, swift_data_list[i], commit_oks[i]),
                  swift_data_list, commit_oks, i + 1)

\* POST /v1/load-data on a readable file: the database afterwards and the response
load_data_from_file(db, file, commit_oks) ==
    LET swift_data_list == parse_swift_data(file)
        done == LoadRows([db |-> db, added |-> 0, skipped |-> 0, errors |-> 0,
                          created |-> {}],
                         swift_data_list, commit_oks, 1)
    IN  [db |-> done.db, created |-> done.created,
         resp |-> [status |-> 200, added |-> done.added, skipped |-> done.skipped,
                   errors |-> done.errors]]

AllCommitsOk == [i \in 1..MaxRows |-> TRUE]

----------------------------------------------------------------------------
(* Requests served one after the other, with a storage that commits.  A    *)
(* handler runs when no request is being served and leaves its request and *)
(* response in req and resp; EndRequest ends the exchange.                 *)

NoRequest == [op |-> "none"]
NoResponse == [status |-> 0]
NoSession == [pc |-> "idle"]

Init ==
    /\ store = {}
    /\ live = {}
    /\ removed = {}
    /\ req = NoRequest
    /\ resp = NoResponse
    /\ sess = [s \in 1..NumSessions |-> NoSession]

\* history: the rows written by successful creates and not deleted since, and
\* the codes deleted and not created since, as reported to the callers
AfterCreate(row) ==
    /\ live' = live \cup {row}
    /\ removed' = removed \ {row.swift_code}

AfterDelete(code) ==
    /\ live' = {r \in live : r.swift_code # code}
    /\ removed' = removed \cup {code}

CreateSwiftCode ==
    /\ req = NoRequest
    /\ \E data \in CreateInputs :
        LET out == create_swift_code(store, data, TRUE)
        IN  /\ store' = out.db
            /\ req' = [op |-> "create", data |-> data]
            /\ resp' = out.resp
            /\ IF out.resp.status = 201
               THEN AfterCreate(out.created[1])
               ELSE UNCHANGED <<live, removed>>
            /\ UNCHANGED sess

ReadSwiftCode ==
    /\ req = NoRequest
    /\ \E swift_code \in CodeInputs :
        \E r \in read_swift_code(store, swift_code) :
            /\ req' = [op |-> "get", swift_code |-> swift_code]
            /\ resp' = r
            /\ UNCHANGED <<store, live, removed, sess>>

ReadSwiftsByCountry ==
    /\ req = NoRequest
    /\ \E q \in CountryQueries :
        \E r \in read_swifts_by_country(store, q.country_iso2_code, q.skip, q.limit) :
            /\ req' = [op |-> "country", country_iso2_code |-> q.country_iso2_code,
                       skip |-> q.skip, limit |-> q.limit]
            /\ resp' = r
            /\ UNCHANGED <<store, live, removed, sess>>

DeleteSwiftCode ==
    /\ req = NoRequest
    /\ \E swift_code \in CodeInputs :
        LET out == delete_swift_code(store, swift_code, TRUE)
        IN  /\ store' = out.db
            /\ req' = [op |-> "delete", swift_code |-> swift_code]
            /\ resp' = out.resp
            /\ IF out.resp.status = 200
               THEN AfterDelete(out.resp.swift_code)
               ELSE UNCHANGED <<live, removed>>
            /\ UNCHANGED sess

LoadDataFromFile ==
    /\ req = NoRequest
    /\ \E file \in Files :
        LET out == load_data_from_file(store, file, AllCommitsOk)
        IN  /\ store' = out.db
            /\ req' = [op |-> "load", file |-> file]
            /\ resp' = out.resp
            /\ live' = live \cup out.created
            /\ removed' = removed \ Codes(out.created)
            /\ UNCHANGED sess

\* the response is sent and the request's session closed (get_db)
EndRequest ==
    /\ req # NoRequest
    /\ req' = NoRequest
    /\ resp' = NoResponse
    /\ UNCHANGED <<store, live, removed, sess>>

Next ==
    \/ CreateSwiftCode
    \/ ReadSwiftCode
    \/ ReadSwiftsByCountry
    \/ DeleteSwiftCode
    \/ LoadDataFromFile
    \/ EndRequest

Spec == Init /\ [][Next]_vars

----------------------------------------------------------------------------
(* Requests served one after the other, with a storage whose commits may   *)
(* fail for a reason other than the primary key (db.commit() raises, the   *)
(* crud function rolls back).  req.commit_ok = FALSE and req.failing record *)
(* which commit the storage refuses.                                       *)

\* POST /v1/swift-codes/ with a storage that refuses the commit
CreateSwiftCodeCommitFails ==
    /\ req = NoRequest
    /\ \E data \in {d \in CreateInputs : d.is_headquarter = None} :
        LET out == create_swift_code(store, data, FALSE)
        IN  /\ store' = out.db
            /\ req' = [op |-> "create", data |-> data, commit_ok |-> FALSE]
            /\ resp' = out.resp
            /\ IF out.resp.status = 201
               THEN AfterCreate(out.created[1])
               ELSE UNCHANGED <<live, removed>>
            /\ UNCHANGED sess

\* DELETE /v1/swift-codes/{swift_code} with a storage that refuses the commit
DeleteSwiftCodeCommitFails ==
    /\ req = NoRequest
    /\ \E swift_code \in CodeInputs :
        LET out == delete_swift_code(store, swift_code, FALSE)
        IN  /\ store' = out.db
            /\ req' = [op |-> "delete", swift_code |-> swift_code, commit_ok |-> FALSE]
            /\ resp' = out.resp
            /\ IF out.resp.status = 200
               THEN AfterDelete(out.resp.swift_code)
               ELSE UNCHANGED <<live, removed>>
            /\ UNCHANGED sess

\* POST /v1/load-data with a storage that refuses the commit of one record,
\* the one at position failing of the parsed records
LoadDataFromFileCommitFails ==
    /\ req = NoRequest
    /\ \E file \in Files : \E failing \in 1..MaxRows :
        LET out == load_data_from_file(store, file,
                                       [i \in 1..MaxRows |-> i # failing])
        IN  /\ store' = out.db
            /\ req' = [op |-> "load", file |-> file, failing |-> failing]
            /\ resp' = out.resp
            /\ live' = live \cup out.created
            /\ removed' = removed \ Codes(out.created)
            /\ UNCHANGED sess

NextFault ==
    \/ CreateSwiftCode
    \/ ReadSwiftCode
    \/ ReadSwiftsByCountry
    \/ DeleteSwiftCode
    \/ LoadDataFromFile
    \/ EndRequest
    \/ CreateSwiftCodeCommitFails
    \/ DeleteSwiftCodeCommitFails
    \/ LoadDataFromFileCommitFails

SpecFault == Init /\ [][NextFault]_vars

----------------------------------------------------------------------------
(* Concurrent requests.  Each session runs one handler at a time, one      *)
(* database call per step; each call is atomic and sees the rows committed *)
(* so far; a commit may fail.  sess[s].pc is the session's position.       *)

Sessions == 1..NumSessions

ConcCodes == {HQ11, BR11}

ConcCreateInputs ==
    {Payload(c, p, None) : c \in ConcCodes, p \in Profiles}
    \cup {Payload(TooShort, p, None) : p \in Profiles}

ConcRawRows == {r \in RawRows : Upper(r.swift_code) \in ConcCodes}

ConcFiles == SeqsUpTo(ConcRawRows, MaxRows)

Idle(s) == sess[s].pc = "idle"

Done(op, code, r) == [pc |-> "done", op |-> op, swift_code |-> code, resp |-> r]

\* create_swift_code, lines 194-204: validation and the existence check
BeginCreate(s) ==
    /\ Idle(s)
    /\ \E data \in ConcCreateInputs :
        IF ~SwiftCodeCreateValid(data)
        THEN sess' = [sess EXCEPT ![s] = Done("create", data.swift_code, [status |-> 422])]
        ELSE LET swift_data == SwiftCodeCreate(data)
             IN  IF get_swift_by_code(store, swift_data.swift_code) # None
                 THEN sess' = [sess EXCEPT ![s] =
                                  Done("create", swift_data.swift_code, [status |-> 400])]
                 ELSE sess' = [sess EXCEPT ![s] =
                                  [pc |-> "create_commit", swift_data |-> swift_data]]
    /\ UNCHANGED <<store, live, removed, req, resp>>

\* create_swift_code, lines 207-220: crud.create_swift and the response
CommitCreate(s) ==
    /\ sess[s].pc = "create_commit"
    /\ \E commit_ok \in BOOLEAN :
        LET out == create_swift(store, sess[s].swift_data, commit_ok)
        IN  /\ store' = out.db
            /\ sess' = [sess EXCEPT ![s] =
                           Done("create", sess[s].swift_data.swift_code,
                                IF out.ret = None THEN [status |-> 500]
                                ELSE [status |-> 201, created |-> out.ret[1]])]
    /\ UNCHANGED <<live, removed, req, resp>>

\* delete_swift_code / crud.delete_swift, lines 81-82 and 93-94: the lookup
BeginDelete(s) ==
    /\ Idle(s)
    /\ \E swift_code \in ConcCodes :
        LET db_swift == get_swift_by_code(store, swift_code)
        IN  IF db_swift = None
            THEN sess' = [sess EXCEPT ![s] = Done("delete", swift_code, [status |-> 404])]
            ELSE sess' = [sess EXCEPT ![s] =
                             [pc |-> "delete_commit", swift_code |-> swift_code,
                              db_swift |-> db_swift[1]]]
    /\ UNCHANGED <<store, live, removed, req, resp>>

\* crud.delete_swift, lines 83-92: db.delete, the commit, and the response; a
\* DELETE that matches no row any more is no error
CommitDelete(s) ==
    /\ sess[s].pc = "delete_commit"
    /\ \E commit_ok \in BOOLEAN :
        IF commit_ok
        THEN /\ store' = DeleteRow(store, sess[s].db_swift)
             /\ sess' = [sess EXCEPT ![s] =
                            Done("delete", sess[s].swift_code,
                                 [status |-> 200, deleted |-> sess[s].db_swift])]
        ELSE /\ store' = store
             /\ sess' = [sess EXCEPT ![s] =
                            Done("delete", sess[s].swift_code, [status |-> 404])]
    /\ UNCHANGED <<live, removed, req, resp>>

\* read_swift_code, lines 82-88 and 106-108: the record lookup
BeginGet(s) ==
    /\ Idle(s)
    /\ \E swift_code \in ConcCodes :
        LET db_swift == get_swift_by_code(store, swift_code)
        IN  IF db_swift = None
            THEN sess' = [sess EXCEPT ![s] = Done("get", swift_code, [status |-> 404])]
            ELSE IF wants_branches(db_swift[1])
                 THEN sess' = [sess EXCEPT ![s] =
                                  [pc |-> "get_branches", swift_code |-> swift_code,
                                   db_swift |-> db_swift[1]]]
                 ELSE sess' = [sess EXCEPT ![s] =
                                  Done("get", swift_code, PlainResponse(db_swift[1]))]
    /\ UNCHANGED <<store, live, removed, req, resp>>

\* read_swift_code, lines 89-105: the branch lookup and the composite response
GetBranches(s) ==
    /\ sess[s].pc = "get_branches"
    /\ \E o \in RowOrders(get_branches_by_hq_prefix(store, hq_prefix_of(sess[s].db_swift))) :
        sess' = [sess EXCEPT ![s] =
                    Done("get", sess[s].swift_code, HeadquarterResponse(sess[s].db_swift, o))]
    /\ UNCHANGED <<store, live, removed, req, resp>>

\* load_data_from_file, lines 60-69: the file is parsed
BeginLoad(s) ==
    /\ Idle(s)
    /\ \E file \in ConcFiles :
        sess' = [sess EXCEPT ![s] =
                    [pc |-> "load_check", swift_data_list |-> parse_swift_data(file), i |-> 1,
                     added |-> 0, skipped |-> 0, errors |-> 0]]
    /\ UNCHANGED <<store, live, removed, req, resp>>

\* load_data_from_file, lines 71-79 and 90-95: validation of record i and the
\* existence check
LoadCheck(s) ==
    /\ sess[s].pc = "load_check"
    /\ sess[s].i <= Len(sess[s].swift_data_list)
    /\ LET swift_dict == sess[s].swift_data_list[sess[s].i]
       IN  IF \/ ~SwiftCodeCreateValid(swift_dict)
              \/ get_swift_by_code(store, SwiftCodeCreate(swift_dict).swift_code) # None
           THEN sess' = [sess EXCEPT ![s].skipped = @ + 1, ![s].i = @ + 1]
           ELSE sess' = [sess EXCEPT ![s].pc = "load_commit"]
    /\ UNCHANGED <<store, live, removed, req, resp>>

\* load_data_from_file, lines 81-89: crud.create_swift for record i
LoadCommit(s) ==
    /\ sess[s].pc = "load_commit"
    /\ \E commit_ok \in BOOLEAN :
        LET swift_dict == sess[s].swift_data_list[sess[s].i]
            out == create_swift(store, SwiftCodeCreate(swift_dict), commit_ok)
        IN  /\ store' = out.db
            /\ IF out.ret # None
               THEN sess' = [sess EXCEPT ![s].pc = "load_check",
                                         ![s].added = @ + 1, ![s].i = @ + 1]
               ELSE sess' = [sess EXCEPT ![s].pc = "load_check",
                                         ![s].errors = @ + 1, ![s].i = @ + 1]
    /\ UNCHANGED <<live, removed, req, resp>>

\* load_data_from_file, lines 97-99: the counts are reported
FinishLoad(s) ==
    /\ sess[s].pc = "load_check"
    /\ sess[s].i > Len(sess[s].swift_data_list)
    /\ sess' = [sess EXCEPT ![s] =
                   Done("load", <<>>,
                        [status |-> 200, added |-> sess[s].added,
                         skipped |-> sess[s].skipped, errors |-> sess[s].errors])]
    /\ UNCHANGED <<store, live, removed, req, resp>>

\* the response is sent and the session closed (get_db)
EndSession(s) ==
    /\ sess[s].pc = "done"
    /\ sess' = [sess EXCEPT ![s] = NoSession]
    /\ UNCHANGED <<store, live, removed, req, resp>>

NextConc ==
    \E s \in Sessions :
        \/ BeginCreate(s)
        \/ CommitCreate(s)
        \/ BeginDelete(s)
        \/ CommitDelete(s)
        \/ BeginGet(s)
        \/ GetBranches(s)
        \/ BeginLoad(s)
        \/ LoadCheck(s)
        \/ LoadCommit(s)
        \/ FinishLoad(s)
        \/ EndSession(s)

SpecConc == Init /\ [][NextConc]_vars

----------------------------------------------------------------------------
(* Properties.                                                             *)

\* the stored row with a code, for a code that is stored
RowOf(db, code) == CHOOSE r \in db : r.swift_code = code

\* a handler ran in this step
Served(op) == req = NoRequest /\ req'.op = op

\* C1: every stored record is flagged headquarters exactly when its code ends
\* with "XXX", for 8-character codes as for 11-character ones.
C1_FlagFollowsSuffix ==
    \A r \in store :
        r.is_headquarter =
            (/\ Len(r.swift_code) >= 3
             /\ r.swift_code[Len(r.swift_code) - 2] = "X"
             /\ r.swift_code[Len(r.swift_code) - 1] = "X"
             /\ r.swift_code[Len(r.swift_code)] = "X")

\* an 8-character code ending in XXX was created with the flag given as false,
\* and an 11-character branch is stored next to it
C1_Witness ==
    /\ req.op = "create" /\ resp.status = 201
    /\ req.data.swift_code = HQ8 /\ req.data.is_headquarter = Some(FALSE)
    /\ \E r \in store : r.swift_code = HQ8 /\ r.is_headquarter = TRUE
    /\ \E r \in store : r.swift_code = BR11 /\ r.is_headquarter = FALSE

\* C2: a create's response and the store it leaves are the same whatever
\* is_headquarter value (true, false, omitted) the request carries.
C2_FlagHasNoInfluence ==
    [][Served("create") =>
        \A f \in Flags :
            LET other == create_swift_code(store, [req'.data EXCEPT !.is_headquarter = f], TRUE)
            IN  other.db = store' /\ other.resp = resp']_vars

\* a branch code was created with the flag given as true
C2_Witness ==
    /\ req.op = "create" /\ resp.status = 201
    /\ req.data.swift_code = BR11 /\ req.data.is_headquarter = Some(TRUE)
    /\ \E r \in store : r.swift_code = BR11 /\ r.is_headquarter = FALSE

\* C4: a valid create of a code not created before (or deleted since) succeeds;
\* a create of a code created before and not deleted since is a Conflict, and
\* leaves the store as it was, the record being the one the successful create wrote.
C4_ConflictKeepsFirst ==
    [][(Served("create") /\ SwiftCodeCreateValid(req'.data)) =>
        IF \E w \in live : w.swift_code = req'.data.swift_code
        THEN /\ resp'.status = 400
             /\ store' = store
             /\ \E w \in live : w.swift_code = req'.data.swift_code /\ w \in store'
        ELSE /\ resp'.status = 201
             /\ \E r \in store' : r.swift_code = req'.data.swift_code]_vars

\* a second create of a stored code, with other field values, was refused
C4_Witness ==
    /\ req.op = "create" /\ resp.status = 400
    /\ \E r \in store : /\ r.swift_code = req.data.swift_code
                        /\ r.bank_name # req.data.bank_name
                        /\ r \in live

\* what get-by-code answers in the current state
GetNow(code) == read_swift_code(store, code)

\* C5 as amended: right after an accepted create, get-by-code of its code
\* returns the bankName and address supplied, the countryCode and countryName
\* supplied converted to upper case, and isHeadquarters as the code classifies.
C5_RoundTripUppercased ==
    (req.op = "create" /\ resp.status = 201) =>
        \A g \in GetNow(req.data.swift_code) :
            /\ g.status = 200
            /\ g.body.swift_code = req.data.swift_code
            /\ g.body.bank_name = req.data.bank_name
            /\ g.body.address = req.data.address
            /\ g.body.country_iso2 = Upper(req.data.country_iso2)
            /\ g.body.country_name = Upper(req.data.country_name)
            /\ g.body.is_headquarter = EndsWith(req.data.swift_code, XXX)

\* C5 as claimed: the countryCode and countryName returned are the ones supplied.
C5_RoundTripAsClaimed ==
    (req.op = "create" /\ resp.status = 201) =>
        \A g \in GetNow(req.data.swift_code) :
            /\ g.status = 200
            /\ g.body.bank_name = req.data.bank_name
            /\ g.body.address = req.data.address
            /\ g.body.country_iso2 = req.data.country_iso2
            /\ g.body.country_name = req.data.country_name
            /\ g.body.is_headquarter = EndsWith(req.data.swift_code, XXX)

\* a create with a mixed-case country name and a wrong flag was accepted
C5_Witness ==
    /\ req.op = "create" /\ resp.status = 201
    /\ req.data.country_name # Upper(req.data.country_name)
    /\ req.data.is_headquarter = Some(~EndsWith(req.data.swift_code, XXX))

\* the codes listed in the branches field of a get-by-code response
ListedCodes(r) ==
    IF r.status = 200 /\ "branches" \in DOMAIN r.body
    THEN {r.body.branches[i].swift_code : i \in 1..Len(r.body.branches)}
    ELSE {}

SamePrefix8(a, b) == \A i \in 1..8 : a[i] = b[i]

\* C6: the branches list of a stored 11-character headquarters code holds each
\* stored non-headquarters record with the same first 8 characters exactly
\* once, with that record's values, and nothing else.
C6_BranchesOfHq11 ==
    (/\ req.op = "get" /\ resp.status = 200
     /\ Len(req.swift_code) = 11 /\ EndsWith(req.swift_code, XXX)) =>
        /\ "branches" \in DOMAIN resp.body
        /\ ListedCodes(resp) =
               {r.swift_code : r \in {x \in store : /\ SamePrefix8(x.swift_code, req.swift_code)
                                                    /\ x.is_headquarter = FALSE}}
        /\ Len(resp.body.branches) = Cardinality(ListedCodes(resp))
        /\ \A i \in 1..Len(resp.body.branches) :
               LET b == resp.body.branches[i]
                   r == RowOf(store, b.swift_code)
               IN  /\ b.bank_name = r.bank_name /\ b.address = r.address
                   /\ b.country_iso2 = r.country_iso2 /\ b.is_headquarter = FALSE

\* the headquarters was fetched with its two branches listed while a record of
\* another prefix and another headquarters were stored
C6_Witness ==
    /\ req.op = "get" /\ req.swift_code = HQ11 /\ resp.status = 200
    /\ ListedCodes(resp) = {BR11, BR8}
    /\ {BRHQ8, HQ8} \subseteq Codes(store)

\* is stored record b listed as a branch in the response to a get of h's code
ReportedAsBranch(b) == b.swift_code \in ListedCodes(resp)

\* C7 as amended: B is reported as a branch of H exactly when H's code ends in
\* "XXX" (with 8 or 11 characters), B's first 8 characters are H's, and B is
\* not a headquarters.
C7_BranchRelation ==
    (req.op = "get" /\ resp.status = 200) =>
        \A b \in store :
            ReportedAsBranch(b) <=>
                /\ EndsWith(req.swift_code, XXX)
                /\ SamePrefix8(b.swift_code, req.swift_code)
                /\ b.is_headquarter = FALSE

\* C7 as claimed: ... and H's code has 11 characters, so that an 8-character
\* code ending in "XXX" has no record reported as its branch.
C7_BranchRelationAsClaimed ==
    (req.op = "get" /\ resp.status = 200) =>
        \A b \in store :
            ReportedAsBranch(b) <=>
                /\ EndsWith(req.swift_code, XXX)
                /\ Len(req.swift_code) = 11
                /\ SamePrefix8(b.swift_code, req.swift_code)
                /\ b.is_headquarter = FALSE

\* an 8-character headquarters was fetched and a record is listed as its branch
C7_Witness ==
    /\ req.op = "get" /\ req.swift_code = HQ8 /\ resp.status = 200
    /\ ListedCodes(resp) = {BRHQ8}
    /\ {HQ11, BR11} \subseteq Codes(store)

\* C8: a successful get-by-code response has a branches field exactly when the
\* stored record is a headquarters (an empty list if it has no branches).
C8_BranchesFieldIffHq ==
    (req.op = "get" /\ resp.status = 200) =>
        ("branches" \in DOMAIN resp.body <=> RowOf(store, req.swift_code).is_headquarter)

\* a headquarters without branches was fetched: the list is there and empty
C8_Witness ==
    /\ req.op = "get" /\ resp.status = 200
    /\ RowOf(store, req.swift_code).is_headquarter
    /\ "branches" \in DOMAIN resp.body /\ resp.body.branches = <<>>
    /\ \E r \in store : ~r.is_headquarter

\* C9: a delete of a stored code succeeds, returns the stored record and
\* removes it; a delete of a code not stored reports not-found and changes
\* nothing; and a get of a code deleted and not created since reports NotFound.
C9_DeleteThenNotFound ==
    [][/\ (Served("delete") /\ SWIFT_CODE_PATTERN(req'.swift_code)) =>
            IF req'.swift_code \in Codes(store)
            THEN /\ resp'.status = 200
                 /\ resp'.deleted = RowOf(store, req'.swift_code)
                 /\ req'.swift_code \notin Codes(store')
            ELSE /\ resp'.status = 404
                 /\ store' = store
       /\ (Served("get") /\ req'.swift_code \in removed) => resp'.status = 404]_vars

\* a code that was deleted after being created was fetched
C9_Witness ==
    /\ req.op = "get" /\ req.swift_code \in removed /\ resp.status = 404
    /\ store # {}

CountryRows(db, country) == {r \in db : r.country_iso2 = country}

\* C10: with no stored record of the requested country, get-by-country is
\* not-found for every skip and limit; with N >= 1 of them and skip >= N it is
\* a success with an empty list and the country name of one of them.
C10_EmptyPageOrNotFound ==
    (/\ req.op = "country"
     /\ CountryQueryValid(req.country_iso2_code, req.skip, req.limit)) =>
        LET rows == CountryRows(store, req.country_iso2_code)
        IN  /\ rows = {} => resp.status = 404
            /\ (rows # {} /\ req.skip >= Cardinality(rows)) =>
                   /\ resp.status = 200
                   /\ resp.body.swift_codes = <<>>
                   /\ resp.body.country_iso2 = req.country_iso2_code
                   /\ resp.body.country_name \in {r.country_name : r \in rows}

\* a page beyond the records of a country that has some was requested
C10_Witness ==
    /\ req.op = "country" /\ resp.status = 200
    /\ resp.body.swift_codes = <<>>
    /\ CountryRows(store, req.country_iso2_code) # {}
    /\ \E r \in store : r.country_iso2 # req.country_iso2_code

\* C3: in every state reached by interleaved creates, bulk loads and deletes,
\* no two stored records have the same swift_code.
C3_OneRecordPerCode ==
    \A r1 \in store : \A r2 \in store : r1.swift_code = r2.swift_code => r1 = r2

\* two sessions were creating the same code with different values at once;
\* one has stored its record and the other has been refused by the commit
C3_Witness ==
    \E s1 \in Sessions : \E s2 \in Sessions :
        /\ sess[s1].pc = "done" /\ sess[s1].op = "create" /\ sess[s1].resp.status = 201
        /\ sess[s2].pc = "done" /\ sess[s2].op = "create" /\ sess[s2].resp.status = 500
        /\ sess[s1].swift_code = sess[s2].swift_code
        /\ sess[s1].resp.created \in store

\* the first skips of the consecutive windows of length L over n records
WindowSkips(n, L) == {k * L : k \in {j \in 0..n : j * L < n}}

\* the pagings of a country: one answer of get-by-country per window
Pagings(db, country, L) ==
    LET skips == WindowSkips(Cardinality(CountryRows(db, country)), L)
        answers == UNION {read_swifts_by_country(db, country, k, L) : k \in skips}
    IN  {page \in [skips -> answers] :
            \A k \in skips : page[k] \in read_swifts_by_country(db, country, k, L)}

\* how many times a code is listed in the windows of a paging
TimesListed(page, code) ==
    Cardinality({<<k, i>> \in (DOMAIN page) \X (1..MaxLimit) :
                    /\ page[k].status = 200
                    /\ i <= Len(page[k].body.swift_codes)
                    /\ page[k].body.swift_codes[i].swift_code = code})

\* C11: over an unchanging store, the get-by-country answers for the windows
\* skip = 0, L, 2L, ... with limit L list every record of the country exactly
\* once; no window repeats a record of another and none is left out.
C11_WindowsPartition ==
    \A country \in {PL, DE} : \A L \in 1..MaxLimit :
        \A page \in Pagings(store, country, L) :
            \A r \in CountryRows(store, country) :
                TimesListed(page, r.swift_code) = 1

\* a code of 8 or 11 characters, each of A-Z or 0-9
WellFormedCode(code) ==
    /\ Len(code) = 8 \/ Len(code) = 11
    /\ \A i \in 1..Len(code) : code[i] \in UpperLetters \cup Digits

\* a country code of two letters, of either case
TwoLetters(country) ==
    /\ Len(country) = 2
    /\ \A i \in 1..Len(country) :
           country[i] \in UpperLetters \cup DOMAIN LowerToUpper

\* C12: interactive create validates the code as supplied, without converting
\* it to upper case: given a valid country code the request is accepted
\* exactly when the code has length 8 or 11 over A-Z and 0-9; any other code,
\* a lower-case one included, is a validation error and leaves the store
\* unchanged, and an accepted code is stored as supplied.
C12_CodeValidatedAsSupplied ==
    [][Served("create") =>
          /\ TwoLetters(req'.data.country_iso2) =>
                 (resp'.status # 422 <=> WellFormedCode(req'.data.swift_code))
          /\ resp'.status = 422 => store' = store
          /\ resp'.status = 201 =>
                 /\ resp'.swift_code = req'.data.swift_code
                 /\ req'.data.swift_code \in Codes(store')]_vars

\* C12 as claimed: the request is accepted exactly when the code converted to
\* upper case has length 8 or 11 over A-Z and 0-9.
C12_CodeValidatedUppercased ==
    [][Served("create") =>
          /\ TwoLetters(req'.data.country_iso2) =>
                 (resp'.status # 422 <=> WellFormedCode(Upper(req'.data.swift_code)))
          /\ resp'.status = 422 => store' = store]_vars

\* a create with a lower-case code and a valid country code was refused as
\* invalid while the upper-case code was not stored
C12_Witness ==
    /\ req.op = "create" /\ req.data.swift_code = LowerHQ11
    /\ TwoLetters(req.data.country_iso2)
    /\ resp.status = 422
    /\ HQ11 \notin Codes(store)

\* C13: every stored record has a country code of two upper-case letters, a
\* country name without lower-case letters, and a code of length 8 or 11 over
\* A-Z and 0-9.
C13_StoredValuesCanonical ==
    \A r \in store :
        /\ Len(r.country_iso2) = 2
        /\ \A i \in 1..Len(r.country_iso2) : r.country_iso2[i] \in UpperLetters
        /\ \A i \in 1..Len(r.country_name) : r.country_name[i] \notin DOMAIN LowerToUpper
        /\ WellFormedCode(r.swift_code)

\* a create that supplied a lower-case country code and a mixed-case country
\* name has stored its record
C13_Witness ==
    /\ req.op = "create" /\ resp.status = 201
    /\ req.data.country_iso2 = <<"p", "l">>
    /\ req.data.country_name = <<"P", "o", "l", "a", "n", "d">>
    /\ RowOf(store, resp.swift_code).country_iso2 = PL
    /\ RowOf(store, resp.swift_code).country_name = <<"P", "O", "L", "A", "N", "D">>

\* C14: a create that passed its existence check and commits after another
\* session's create of the same code has stored its record is reported as a
\* conflict (400) and stores nothing.
C14_RaceLoserGetsConflict ==
    [][\A s \in Sessions :
          (/\ sess[s].pc = "create_commit" /\ sess'[s].pc = "done"
           /\ \E s2 \in Sessions \ {s} :
                  /\ sess[s2].pc = "done" /\ sess[s2].op = "create"
                  /\ sess[s2].resp.status = 201
                  /\ sess[s2].swift_code = sess[s].swift_data.swift_code
                  /\ sess[s2].resp.created \in store) =>
              /\ sess'[s].resp.status = 400
              /\ store' = store]_vars

\* the storage refuses the commit of the request served in this step
CommitRefused == "commit_ok" \in DOMAIN req' /\ ~req'.commit_ok

\* C15: a delete of a stored code whose commit fails is answered exactly as
\* a delete of a code that is not stored (404), and leaves the store as it was.
C15_FailedDeleteLooksAbsent ==
    [][(/\ Served("delete") /\ CommitRefused
        /\ req'.swift_code \in Codes(store)) =>
           /\ resp'.status = 404
           /\ resp' = delete_swift_code({}, req'.swift_code, TRUE).resp
           /\ store' = store]_vars

\* the commit of a delete of a stored code failed; the code is still stored
C15_Witness ==
    /\ req.op = "delete" /\ "commit_ok" \in DOMAIN req /\ ~req.commit_ok
    /\ req.swift_code \in Codes(store)
    /\ resp.status = 404

\* C16: a valid create of a code that is not stored whose commit fails is
\* answered 500, neither 400 nor 404, and leaves the store as it was.
C16_FailedCreateIsFault ==
    [][(/\ Served("create") /\ CommitRefused
        /\ WellFormedCode(req'.data.swift_code)
        /\ TwoLetters(req'.data.country_iso2)
        /\ req'.data.swift_code \notin Codes(store)) =>
           /\ resp'.status = 500
           /\ resp'.status \notin {400, 404}
           /\ store' = store]_vars

\* the commit of a valid create failed over a store holding other records
C16_Witness ==
    /\ req.op = "create" /\ "commit_ok" \in DOMAIN req /\ ~req.commit_ok
    /\ resp.status = 500
    /\ req.data.swift_code \notin Codes(store)
    /\ store # {}

\* the commit of the parsed record at position i of the file of request r is refused
Refused(r, i) == "failing" \in DOMAIN r /\ r.failing = i

\* C17: a bulk load answers with counters whose sum is the number of parsed
\* rows; added is the number of records newly stored; every stored record
\* stays as it was; and every parsed row that is valid and whose commit is
\* not refused has its code stored afterwards, whatever rows precede it.
C17_LoadCountsEveryRow ==
    [][Served("load") =>
          LET parsed == parse_swift_data(req'.file)
          IN  /\ resp'.status = 200
              /\ resp'.added + resp'.skipped + resp'.errors = Len(parsed)
              /\ resp'.added = Cardinality(store' \ store)
              /\ store \subseteq store'
              /\ \A r1 \in store' : \A r2 \in store' :
                     r1.swift_code = r2.swift_code => r1 = r2
              /\ \A i \in 1..Len(parsed) :
                     (WellFormedCode(parsed[i].swift_code) /\ ~Refused(req', i)) =>
                         parsed[i].swift_code \in Codes(store')]_vars

\* a load of a file whose first parsed row fails validation and whose second
\* is new: one skipped, one added, over a store that held a record before
C17_Witness ==
    /\ req.op = "load" /\ Len(parse_swift_data(req.file)) = 2
    /\ ~WellFormedCode(parse_swift_data(req.file)[1].swift_code)
    /\ resp.skipped = 1 /\ resp.added = 1
    /\ Cardinality(store) >= 2

\* C18: an interactive create with an empty bank name or an empty country
\* name, a valid code that is not stored and a valid country code is accepted
\* and its record stored with the empty values; a bulk load stores no record
\* whose code, country code, country name or bank name is empty.
C18_EmptyNamesOnlyInteractive ==
    [][/\ (/\ Served("create")
           /\ req'.data.bank_name = "" \/ req'.data.country_name = <<>>
           /\ WellFormedCode(req'.data.swift_code)
           /\ TwoLetters(req'.data.country_iso2)
           /\ req'.data.swift_code \notin Codes(store)) =>
              /\ resp'.status = 201
              /\ \E r \in store' \ store :
                     /\ r.swift_code = req'.data.swift_code
                     /\ r.bank_name = req'.data.bank_name
                     /\ r.country_name = Upper(req'.data.country_name)
       /\ Served("load") =>
              \A r \in store' \ store :
                  /\ r.swift_code # <<>> /\ r.country_iso2 # <<>>
                  /\ r.country_name # <<>> /\ r.bank_name # ""]_vars

\* a load of a file with a row whose bank name is empty has not stored that
\* row, over a store holding an interactively created record with an empty
\* bank name and an empty country name
C18_Witness ==
    /\ req.op = "load"
    /\ \E i \in 1..Len(req.file) :
           /\ req.file[i].bank_name = ""
           /\ req.file[i].swift_code \notin Codes(store)
    /\ resp.added >= 1
    /\ \E r \in store \cap live : r.bank_name = "" /\ r.country_name = <<>>

\* C19: get-by-code and get-by-country leave the store as it was; a record
\* enters the store only in a create answered 201 for its code or in a bulk
\* load that counts it as added; a record leaves the store only in a delete
\* answered 200 for its code; and a record whose code stays stored stays the same.
C19_RecordLifecycle ==
    [][/\ (Served("get") \/ Served("country")) => store' = store
       /\ \A r \in store' \ store :
              \/ /\ Served("create") /\ resp'.status = 201
                 /\ resp'.swift_code = r.swift_code
              \/ /\ Served("load") /\ resp'.added = Cardinality(store' \ store)
                 /\ \E i \in 1..Len(req'.file) :
                        Upper(req'.file[i].swift_code) = r.swift_code
       /\ \A r \in store \ store' :
              /\ Served("delete") /\ resp'.status = 200
              /\ resp'.swift_code = r.swift_code
              /\ r.swift_code \notin Codes(store')]_vars

\* a get-by-code of a code that was deleted reported not-found over a store
\* that still holds the records created and not deleted
C19_Witness ==
    /\ req.op = "get" /\ resp.status = 404
    /\ req.swift_code \in removed
    /\ store = live /\ Cardinality(store) >= 2

\* C20: get-by-code and delete with a code that is not 8 or 11 characters of
\* A-Z and 0-9, and get-by-country with a country code that is not two
\* upper-case letters, a negative skip or a limit outside 1..1000, are
\* answered 422 whatever the store holds, and leave the store as it was.
C20_MalformedIsValidationError ==
    [][/\ ((Served("get") \/ Served("delete")) /\ ~WellFormedCode(req'.swift_code)) =>
              resp' = [status |-> 422] /\ store' = store
       /\ (/\ Served("country")
           /\ \/ Len(req'.country_iso2_code) # 2
              \/ \E i \in 1..Len(req'.country_iso2_code) :
                     req'.country_iso2_code[i] \notin UpperLetters
              \/ req'.skip < 0
              \/ req'.limit < 1 \/ req'.limit > 1000) =>
              resp' = [status |-> 422] /\ store' = store]_vars

\* a get-by-code with the lower-case spelling of a stored code was refused
C20_Witness ==
    /\ req.op = "get" /\ req.swift_code = LowerHQ11
    /\ HQ11 \in Codes(store)
    /\ resp = [status |-> 422]

\* the codes of the non-headquarters rows written and not deleted since that
\* share the first 8 characters of a code
BranchCodesWritten(code) ==
    {b.swift_code : b \in {x \in live : ~x.is_headquarter /\ SamePrefix8(x.swift_code, code)}}

\* C21: right after any accepted create, of a headquarters or of a branch,
\* get-by-code of every stored headquarters succeeds and lists exactly the
\* non-headquarters records with its first 8 characters that were created and
\* not deleted since, whatever the order in which they were created.
C21_BranchesWhateverTheOrder ==
    [][(Served("create") /\ resp'.status = 201) =>
          \A h \in {x \in store' : x.is_headquarter} :
              \A r \in read_swift_code(store', h.swift_code) :
                  /\ r.status = 200
                  /\ ListedCodes(r) = BranchCodesWritten(h.swift_code)']_vars

\* a headquarters was created after two of its branches, over a store that
\* also holds the headquarters of another institution
C21_Witness ==
    /\ req.op = "create" /\ resp.status = 201 /\ resp.swift_code = HQ11
    /\ BranchCodesWritten(HQ11) = {BR11, BR8}
    /\ HQ8 \in Codes(store)

\* C22: a successful get-by-country lists only stored records of the requested
\* country, headquarters or not, each at most once, and as many of them as
\* min(limit, max(0, N - skip)) for the N stored records of the country.
C22_CountryWindowSize ==
    (req.op = "country" /\ resp.status = 200) =>
        LET rows == CountryRows(store, Upper(req.country_iso2_code))
            N == Cardinality(rows)
            listed == resp.body.swift_codes
            rest == IF N - req.skip > 0 THEN N - req.skip ELSE 0
        IN  /\ \A i \in 1..Len(listed) :
                   /\ listed[i].country_iso2 = Upper(req.country_iso2_code)
                   /\ \E r \in rows : listed[i] = SwiftCodeView(r)
            /\ \A i \in 1..Len(listed) : \A j \in 1..Len(listed) :
                   listed[i].swift_code = listed[j].swift_code => i = j
            /\ Len(listed) <= req.limit
            /\ Len(listed) = Min(req.limit, rest)

\* a window of two records, a headquarters and a branch, was returned for a
\* country with three stored records after skipping one
C22_Witness ==
    /\ req.op = "country" /\ resp.status = 200
    /\ req.skip = 1 /\ req.limit = 2
    /\ Cardinality(CountryRows(store, req.country_iso2_code)) = 3
    /\ Len(resp.body.swift_codes) = 2
    /\ \E i \in 1..2 : resp.body.swift_codes[i].is_headquarter
    /\ \E i \in 1..2 : ~resp.body.swift_codes[i].is_headquarter

\* the codes of the stored non-headquarters rows sharing the first 8
\* characters of a code
BranchCodesStored(db, code) ==
    {b.swift_code : b \in {x \in db : ~x.is_headquarter /\ SamePrefix8(x.swift_code, code)}}

\* C23: the branch lookup of a get-by-code of a headquarters ends the request
\* with a success that lists exactly the non-headquarters records with the
\* headquarters' first 8 characters stored at that instant, whatever other
\* sessions stored or deleted since the record lookup; the store is not changed.
C23_BranchesAsOfLookup ==
    [][\A s \in Sessions :
          (sess[s].pc = "get_branches" /\ sess'[s].pc = "done") =>
              /\ sess'[s].resp.status = 200
              /\ sess'[s].resp.body.swift_code = sess[s].db_swift.swift_code
              /\ ListedCodes(sess'[s].resp) =
                     BranchCodesStored(store, sess[s].db_swift.swift_code)
              /\ store' = store]_vars

\* a response not yet delivered lists a branch that another session has
\* deleted since the branch lookup
C23_Witness ==
    \E s \in Sessions :
        /\ sess[s].pc = "done" /\ sess[s].op = "get" /\ sess[s].resp.status = 200
        /\ BR11 \in ListedCodes(sess[s].resp)
        /\ BR11 \notin Codes(store)
        /\ \E s2 \in Sessions \ {s} :
               /\ sess[s2].pc = "done" /\ sess[s2].op = "delete"
               /\ sess[s2].swift_code = BR11 /\ sess[s2].resp.status = 200

\* C24: a delete answered 200 for code c leaves the store without the record
\* of c and otherwise as it was; when c was a headquarters, each of its
\* branches is still returned by get-by-code, is listed by get-by-country for
\* its country, and is listed under c again once c is created again.
C24_DeleteRemovesOneRecord ==
    [][(Served("delete") /\ resp'.status = 200) =>
          LET c == resp'.swift_code
          IN  /\ c \in Codes(store)
              /\ store' = store \ {RowOf(store, c)}
              /\ RowOf(store, c).is_headquarter =>
                     \A b \in BranchCodesStored(store, c) :
                         /\ \A r \in read_swift_code(store', b) :
                                r.status = 200 /\ r.body.swift_code = b
                         /\ \A r \in read_swifts_by_country(
                                         store', RowOf(store, b).country_iso2, 0, LimitMax) :
                                /\ r.status = 200
                                /\ \E i \in 1..Len(r.body.swift_codes) :
                                       r.body.swift_codes[i].swift_code = b
                         /\ \A p \in Profiles :
                                \A r \in read_swift_code(
                                              create_swift_code(store', Payload(c, p, None), TRUE).db,
                                              c) :
                                    r.status = 200 /\ b \in ListedCodes(r)]_vars

\* a headquarters with two stored branches was deleted
C24_Witness ==
    /\ req.op = "delete" /\ resp.status = 200 /\ req.swift_code = HQ11
    /\ {BR11, BR8} \subseteq Codes(store)
    /\ HQ11 \notin Codes(store)

\* C25: a delete that found its record and commits after another session's
\* delete of the same code has removed it is answered 404 and leaves the
\* store as it is.
C25_RaceLoserGetsNotFound ==
    [][\A s \in Sessions :
          (/\ sess[s].pc = "delete_commit" /\ sess'[s].pc = "done"
           /\ sess[s].swift_code \notin Codes(store)
           /\ \E s2 \in Sessions \ {s} :
                  /\ sess[s2].pc = "done" /\ sess[s2].op = "delete"
                  /\ sess[s2].swift_code = sess[s].swift_code
                  /\ sess[s2].resp.status = 200) =>
              /\ sess'[s].resp.status = 404
              /\ store' = store]_vars

\* C26: the country name of a successful get-by-country is the stored name of
\* the first record listed when records are listed, and otherwise of some
\* stored record of the requested country; it is never the placeholder.
C26_CountryNameIsStored ==
    (req.op = "country" /\ resp.status = 200) =>
        LET rows == CountryRows(store, Upper(req.country_iso2_code))
            listed == resp.body.swift_codes
        IN  /\ resp.body.country_name # Unknown
            /\ \E r \in rows : resp.body.country_name = r.country_name
            /\ listed # <<>> =>
                   /\ listed[1].swift_code \in Codes(rows)
                   /\ resp.body.country_name =
                          RowOf(store, listed[1].swift_code).country_name

\* records were listed for a country whose stored records differ in their
\* country names, under the name of the first one listed
C26_Witness ==
    /\ req.op = "country" /\ resp.status = 200
    /\ Len(resp.body.swift_codes) = 2
    /\ resp.body.swift_codes[1].country_name # resp.body.swift_codes[2].country_name
    /\ resp.body.country_name = resp.body.swift_codes[1].country_name
====
